---- MODULE Spec2Model ----
(***************************************************************************)
(* Capacity-bounded event registration of the event-hub backend.           *)
(*                                                                         *)
(* The registrations table and the events table are the shared state;      *)
(* every call of RegistrationService (RegisterUser, CancelRegistration,    *)
(* CheckInAttendee) is a process that takes one step per database access,  *)
(* so that concurrent calls interleave exactly at the statements of        *)
(* backend/internal/service/registration_service.go.                       *)
(***************************************************************************)
EXTENDS Integers, Naturals, Sequences, FiniteSets, TLC

\* ---------------------------------------------------------------- bounds
\* number of service calls issued in one behaviour
MaxCalls == 3
\* largest capacity an event of the initial state has
MaxCapacity == 2
\* workerCount and bufferSize given to NewWorkerPool
WorkerCount == 2
BufferSize == 2
\* latest time of day a request names
MaxTime == 1
\* number of GetEventByID calls that may be in progress together
MaxReaders == 2

\* ------------------------------------------------------------ input sets
Users == {"A", "B", "C"}
\* callers of the check-in endpoint: the organizer and somebody else
CheckInCallers == {"A", "B"}
\* users that own the events of the initial state
Organizers == {"A"}
EventIDs == {"e1"}
EventStatuses == {"draft", "published", "cancelled"}

Calls == 1..MaxCalls

VARIABLES
    events,   \* events table: set of rows [id, organizer, title, capacity,
              \* startTime, endTime, status]
    regs,     \* registrations table: sequence of rows [user, event, status]
    calls,    \* per call: operation, arguments, position, locals, result
    evCall,   \* the EventService call in progress, or the last one
    JobQueue,     \* WorkerPool.JobQueue: the buffered channel, jobs in order
    queueClosed,  \* the channel has been closed
    wg,           \* WorkerPool.wg: the WaitGroup counter
    workers,      \* per worker goroutine: position and job in hand
    processed,    \* jobs whose process() has returned, in order, with the worker
    submitted,    \* number of Submit calls made
    dropLog,      \* jobs of the "queue full, dropping" lines printed
    started,      \* Start has run
    stopPc,       \* position of the Stop call: none, waiting, returned
    stopCalls,    \* number of Stop calls made
    panicked,     \* the process died of a runtime panic
    mainPc,       \* position of main()
    workerCount,  \* WorkerPool.WorkerCount
    cache,        \* the event cache: per event id the cached event, if any
    getCalls      \* per GetEventByID call: position, event read, result

regVars == <<events, regs, calls>>
poolVars == <<JobQueue, queueClosed, wg, workers, processed, submitted, dropLog,
              started, stopPc, stopCalls, panicked, mainPc, workerCount>>
cacheVars == <<cache, getCalls>>
vars == <<events, regs, calls, evCall, JobQueue, queueClosed, wg, workers,
          processed, submitted, dropLog, started, stopPc, stopCalls, panicked,
          mainPc, workerCount, cache, getCalls>>

\* ------------------------------------------------------- events table
\* result of a lookup that found no row (gorm.ErrRecordNotFound)
NoEvent == [id |-> "-", organizer |-> "-", title |-> "", capacity |-> 0,
            startTime |-> 0, endTime |-> 0, status |-> "absent"]

\* SELECT * FROM events WHERE id = ? ... LIMIT 1
GetByID(id) ==
    IF \E r \in events : r.id = id
    THEN CHOOSE r \in events : r.id = id
    ELSE NoEvent

\* mutant of IsPublished: only a cancelled event is refused
IsPublishedDraftPasses(ev) == ev.status # "cancelled"

\* event.Status != "published" refuses the registration
IsPublished(ev) == ev.status = "published"

\* mutant of IsOrganizer: every caller is taken for the organizer
IsOrganizerAnyone(ev, organizerID) == organizerID \in Users

\* event.OrganizerID != organizerID refuses the check-in
IsOrganizer(ev, organizerID) == ev.organizer = organizerID

\* ------------------------------------------------- registrations table
NoRow == [user |-> "-", event |-> "-", status |-> "none"]

\* ids of the rows WHERE user_id = ? AND event_id = ?
Matching(rs, u, e) == {i \in DOMAIN rs : rs[i].user = u /\ rs[i].event = e}

\* mutant of GetByUserAndEvent: the lookup never finds a row
GetByUserAndEventNeverFound(rs, u, e) == NoRow

\* First(&registration): the matching row with the least id, nil if none
GetByUserAndEvent(rs, u, e) ==
    IF Matching(rs, u, e) = {}
    THEN NoRow
    ELSE rs[CHOOSE i \in Matching(rs, u, e) : \A j \in Matching(rs, u, e) : i <= j]

\* mutant of ExistingBlocks: a cancelled row does not refuse the call
ExistingBlocksActiveOnly(existing) == existing # NoRow /\ existing.status # "cancelled"

\* existing != nil returns "user already registered", in the cancelled
\* branch as in the other
ExistingBlocks(existing) == existing # NoRow

\* mutant of CountByEvent: counts the status constant StatusRegistered
CountByEventRegistered(rs, e) ==
    Cardinality({i \in DOMAIN rs : rs[i].event = e /\ rs[i].status = "registered"})

\* mutant of CountByEvent: counts every row of the event
CountByEventAllRows(rs, e) ==
    Cardinality({i \in DOMAIN rs : rs[i].event = e})

\* SELECT count(*) WHERE event_id = ? AND status = 'confirmed'
CountByEvent(rs, e) ==
    Cardinality({i \in DOMAIN rs : rs[i].event = e /\ rs[i].status = "confirmed"})

\* mutant of UniqueViolation: the table has no unique constraint
UniqueViolationNone(rs, row) == FALSE

\* UNIQUE(user_id, event_id) of the registrations table
UniqueViolation(rs, row) == Matching(rs, row.user, row.event) # {}

\* mutant of Cancel: the matching rows are deleted
CancelDeletes(rs, u, e) ==
    [regs |-> SelectSeq(rs, LAMBDA row : ~(row.user = u /\ row.event = e)),
     err  |-> IF Cardinality(Matching(rs, u, e)) = 0
              THEN "RegistrationNotFound"
              ELSE "ok"]

\* UPDATE registrations SET status = 'cancelled' WHERE user_id AND event_id;
\* RowsAffected = 0 is "registration not found"
Cancel(rs, u, e) ==
    [regs |-> [i \in DOMAIN rs |->
                 IF i \in Matching(rs, u, e)
                 THEN [rs[i] EXCEPT !.status = "cancelled"]
                 ELSE rs[i]],
     err  |-> IF Cardinality(Matching(rs, u, e)) = 0
              THEN "RegistrationNotFound"
              ELSE "ok"]

\* the atomic capacity-checked insert: under the lock count the confirmed
\* rows of the event, refuse with EventFull at the limit, else insert
CreateWithCapacityCheck(rs, row, capacityLimit) ==
    IF CountByEvent(rs, row.event) >= capacityLimit
    THEN [regs |-> rs, err |-> "EventFull"]
    ELSE IF UniqueViolation(rs, row)
    THEN [regs |-> rs, err |-> "StorageError"]
    ELSE [regs |-> Append(rs, row), err |-> "ok"]

\* UPDATE registrations SET status = 'checked_in' WHERE user_id AND event_id
CheckIn(rs, u, e) ==
    [regs |-> [i \in DOMAIN rs |->
                 IF i \in Matching(rs, u, e)
                 THEN [rs[i] EXCEPT !.status = "checked_in"]
                 ELSE rs[i]],
     err  |-> "ok"]

\* ------------------------------------------------------------- calls
IdleCall ==
    [op |-> "none", user |-> "-", event |-> "-", attendee |-> "-",
     pc |-> "idle", result |-> "-", capacity |-> 0, seen |-> "-"]

\* calls are issued in the order of their numbers
CanStart(c) ==
    /\ calls[c].pc = "idle"
    /\ IF c = 1 THEN TRUE ELSE calls[c - 1].pc # "idle"

\* ------------------------------------------------------- worker pool
Workers == 1..WorkerCount
\* Submit calls made: enough to fill every worker and the queue, and one more
MaxJobs == WorkerCount + BufferSize + 1

\* mutant of PoolInitWith: the worker goroutines run from construction
PoolInitWithWorkersRunning(n, pc) ==
    /\ workerCount = n
    /\ JobQueue = <<>>
    /\ queueClosed = FALSE
    /\ wg = n
    /\ workers = [w \in Workers |-> [pc |-> "ranging", job |-> 0]]
    /\ processed = <<>>
    /\ submitted = 0
    /\ dropLog = <<>>
    /\ started = FALSE
    /\ stopPc = "none"
    /\ stopCalls = 0
    /\ panicked = FALSE
    /\ mainPc = pc

\* NewWorkerPool(n, BufferSize): an open, empty channel and no goroutine
PoolInitWith(n, pc) ==
    /\ workerCount = n
    /\ JobQueue = <<>>
    /\ queueClosed = FALSE
    /\ wg = 0
    /\ workers = [w \in Workers |-> [pc |-> "unstarted", job |-> 0]]
    /\ processed = <<>>
    /\ submitted = 0
    /\ dropLog = <<>>
    /\ started = FALSE
    /\ stopPc = "none"
    /\ stopCalls = 0
    /\ panicked = FALSE
    /\ mainPc = pc

\* NewWorkerPool(WorkerCount, BufferSize)
PoolInitAt(pc) == PoolInitWith(WorkerCount, pc)

\* the pool used through its methods, without main()
PoolInit == PoolInitAt("api")

\* case wp.JobQueue <- job: a buffered send proceeds while there is room
SendReady(q) == Len(q) < BufferSize

\* mutant of SubmitCanProceed: a plain send, without the default case
SubmitCanProceedNoDefault(q) == SendReady(q)

\* the select of Submit has a default case: it proceeds whatever the queue holds
SubmitCanProceed(q) == SendReady(q) \/ TRUE

\* mutant of DropLine: the job is dropped without a line
DropLineSilent(log, job) == log

\* fmt.Printf("WorkerPool queue full, dropping notification ...")
DropLine(log, job) == Append(log, job)

\* mutant of RangeEnds: the worker leaves as soon as the channel is closed
RangeEndsOnClose(q, closed) == closed

\* for job := range wp.JobQueue ends when the channel is closed and drained
RangeEnds(q, closed) == closed /\ q = <<>>

\* ------------------------------------------------------- event service
\* callers of the event service, and the ids the database hands out
EventCallers == {"A", "B"}
NewIDs == <<"e1">>
Times == 0..MaxTime

\* a request: each field is absent ({}) or present ({v}); CreateEventRequest
\* has every field present, UpdateEventRequest has pointer fields
NoRequest == [title |-> {}, capacity |-> {}, startTime |-> {}, endTime |-> {}]
Optional(S) == {{}} \cup {{v} : v \in S}
CreateRequests ==
    [title : {{""}, {"t"}}, capacity : {{k} : k \in (-1)..MaxCapacity},
     startTime : {{t} : t \in Times}, endTime : {{t} : t \in Times}]
UpdateRequests ==
    [title : Optional({"t"}), capacity : Optional((-1)..MaxCapacity),
     startTime : Optional(Times), endTime : Optional(Times)]

IdleEvCall ==
    [op |-> "none", pc |-> "idle", user |-> "-", id |-> "-",
     req |-> NoRequest, event |-> NoEvent, result |-> "-"]

\* --------------------------------------------------------- event cache
Readers == 1..MaxReaders

IdleGetCall == [pc |-> "idle", id |-> "-", event |-> NoEvent, result |-> "-"]

\* an empty cache and no GetEventByID call
CacheInit ==
    /\ cache = [id \in EventIDs |-> NoEvent]
    /\ getCalls = [g \in Readers |-> IdleGetCall]

\* RedisCache.Get: the cached value, or a miss
CacheGet(c, id) == c[id]

\* RedisCache.Set
CacheSet(c, id, event) == [c EXCEPT ![id] = event]

\* RedisCache.Delete
CacheDelete(c, id) == [c EXCEPT ![id] = NoEvent]

\* time.Time.Before
Before(t, u) == t < u

\* mutant of Validate: the capacity is not looked at
ValidateWithoutCapacity(e) ==
    IF e.title = "" THEN "title is required"
    ELSE IF Before(e.endTime, e.startTime) THEN "end time must be after start time"
    ELSE "ok"

\* Event.Validate
Validate(e) ==
    IF e.title = "" THEN "title is required"
    ELSE IF e.capacity < 1 THEN "capacity must be at least 1"
    ELSE IF Before(e.endTime, e.startTime) THEN "end time must be after start time"
    ELSE "ok"

\* the value of a present field, else the value the event has
Field(opt, old) == IF opt = {} THEN old ELSE CHOOSE v \in opt : TRUE

\* UpdateEvent: only the non-nil fields of the request are applied
ApplyRequest(e, req) ==
    [e EXCEPT !.title = Field(req.title, @), !.capacity = Field(req.capacity, @),
              !.startTime = Field(req.startTime, @), !.endTime = Field(req.endTime, @)]

\* EventRepository.UpdateStatus: UPDATE ... WHERE id AND organizer_id;
\* RowsAffected = 0 is "event not found or user does not own the event"
UpdateStatus(evs, userID, eventID, newStatus) ==
    LET hit == {r \in evs : r.id = eventID /\ r.organizer = userID}
    IN [events |-> (evs \ hit) \cup {[r EXCEPT !.status = newStatus] : r \in hit},
        err    |-> IF hit = {} THEN "EventNotFound" ELSE "ok"]

\* EventRepository.Delete: DELETE ... WHERE id AND organizer_id;
\* RowsAffected = 0 is "event not found"
Delete(evs, userID, eventID) ==
    LET hit == {r \in evs : r.id = eventID /\ r.organizer = userID}
    IN [events |-> evs \ hit,
        err    |-> IF hit = {} THEN "EventNotFound" ELSE "ok"]

\* db.Save: the row of that id is written whole
Save(evs, e) == {r \in evs : r.id # e.id} \cup {e}

\* registrations an event that is no longer published may carry
SeedUsers == {"A"}

SeedRegs ==
    {<<>>} \cup {<<[user |-> u, event |-> e, status |-> s]>> :
                    u \in SeedUsers, e \in EventIDs, s \in {"confirmed", "cancelled"}}

Init ==
    /\ events \in {{}} \cup
                  {{[id |-> id, organizer |-> o, title |-> "t", capacity |-> k,
                     startTime |-> 0, endTime |-> 1, status |-> s]} :
                      id \in EventIDs, o \in Organizers,
                      k \in 1..MaxCapacity, s \in EventStatuses}
    /\ regs \in IF \E r \in events : r.status # "published" THEN SeedRegs ELSE {<<>>}
    /\ calls = [c \in Calls |-> IdleCall]
    /\ evCall = IdleEvCall
    /\ PoolInit
    /\ CacheInit

\* RegisterUser steps 1 and 2: look the event up, require it published
RegisterUserGetEvent(c, userID, eventID) ==
    /\ CanStart(c)
    /\ LET event == GetByID(eventID)
           call  == [IdleCall EXCEPT !.op = "register", !.user = userID,
                                     !.event = eventID]
       IN calls' = [calls EXCEPT ![c] =
             IF event = NoEvent
             THEN [call EXCEPT !.pc = "done", !.result = "EventNotFound"]
             ELSE IF ~IsPublished(event)
             THEN [call EXCEPT !.pc = "done", !.result = "EventNotPublished"]
             ELSE [call EXCEPT !.pc = "reg_lookup", !.capacity = event.capacity]]
    /\ UNCHANGED <<events, regs, evCall, poolVars, cacheVars>>

\* RegisterUser step 3: any existing row of the pair refuses the call
RegisterUserLookup(c) ==
    /\ calls[c].pc = "reg_lookup"
    /\ LET existing == GetByUserAndEvent(regs, calls[c].user, calls[c].event)
       IN calls' = [calls EXCEPT ![c] =
             IF ExistingBlocks(existing)
             THEN [@ EXCEPT !.pc = "done", !.result = "AlreadyRegistered"]
             ELSE [@ EXCEPT !.pc = "reg_insert"]]
    /\ UNCHANGED <<events, regs, evCall, poolVars, cacheVars>>

\* mutant of NewRegistration: the row is built with the table's default status
NewRegistrationDefaultStatus(userID, eventID) ==
    [user |-> userID, event |-> eventID, status |-> "registered"]

\* registration := &domain.Registration{UserID, EventID, Status: "confirmed"}
NewRegistration(userID, eventID) ==
    [user |-> userID, event |-> eventID, status |-> "confirmed"]

\* RegisterUser steps 4 and 5: the capacity-checked insert
RegisterUserInsert(c) ==
    /\ calls[c].pc = "reg_insert"
    /\ LET registration == NewRegistration(calls[c].user, calls[c].event)
           r == CreateWithCapacityCheck(regs, registration, calls[c].capacity)
       IN /\ regs' = r.regs
          /\ calls' = [calls EXCEPT ![c] = [@ EXCEPT !.pc = "done", !.result = r.err]]
    /\ UNCHANGED <<events, evCall, poolVars, cacheVars>>

\* CancelRegistration: one UPDATE statement
CancelRegistration(c, userID, eventID) ==
    /\ CanStart(c)
    /\ LET r == Cancel(regs, userID, eventID)
       IN /\ regs' = r.regs
          /\ calls' = [calls EXCEPT ![c] =
                [IdleCall EXCEPT !.op = "cancel", !.user = userID, !.event = eventID,
                                 !.pc = "done", !.result = r.err]]
    /\ UNCHANGED <<events, evCall, poolVars, cacheVars>>

\* CheckInAttendee step 1: look the event up, require the caller to own it
CheckInAttendeeGetEvent(c, organizerID, eventID, attendeeID) ==
    /\ CanStart(c)
    /\ LET event == GetByID(eventID)
           call  == [IdleCall EXCEPT !.op = "checkin", !.user = organizerID,
                                     !.event = eventID, !.attendee = attendeeID]
       IN calls' = [calls EXCEPT ![c] =
             IF event = NoEvent
             THEN [call EXCEPT !.pc = "done", !.result = "EventNotFound"]
             ELSE IF ~IsOrganizer(event, organizerID)
             THEN [call EXCEPT !.pc = "done", !.result = "Forbidden"]
             ELSE [call EXCEPT !.pc = "chk_lookup"]]
    /\ UNCHANGED <<events, regs, evCall, poolVars, cacheVars>>

\* mutant of CanCheckIn: only a cancelled registration is refused
CanCheckInNotCancelled(status) == status # "cancelled"

\* registration.Status != "confirmed" refuses the check-in
CanCheckIn(status) == status = "confirmed"

\* CheckInAttendee steps 2 and 3: the registration must exist and be confirmed
CheckInAttendeeLookup(c) ==
    /\ calls[c].pc = "chk_lookup"
    /\ LET registration == GetByUserAndEvent(regs, calls[c].attendee, calls[c].event)
       IN calls' = [calls EXCEPT ![c] =
             IF registration = NoRow
             THEN [@ EXCEPT !.pc = "done", !.result = "RegistrationNotFound"]
             ELSE IF ~CanCheckIn(registration.status)
             THEN [@ EXCEPT !.pc = "done", !.result = "InvalidStateTransition",
                            !.seen = registration.status]
             ELSE [@ EXCEPT !.pc = "chk_update", !.seen = registration.status]]
    /\ UNCHANGED <<events, regs, evCall, poolVars, cacheVars>>

\* CheckInAttendee step 4: write the status
CheckInAttendeeUpdate(c) ==
    /\ calls[c].pc = "chk_update"
    /\ LET r == CheckIn(regs, calls[c].attendee, calls[c].event)
       IN /\ regs' = r.regs
          /\ calls' = [calls EXCEPT ![c] = [@ EXCEPT !.pc = "done", !.result = r.err]]
    /\ UNCHANGED <<events, evCall, poolVars, cacheVars>>

Next ==
    \/ \E c \in Calls, u \in Users, e \in EventIDs : RegisterUserGetEvent(c, u, e)
    \/ \E c \in Calls : RegisterUserLookup(c)
    \/ \E c \in Calls : RegisterUserInsert(c)
    \/ \E c \in Calls, u \in Users, e \in EventIDs : CancelRegistration(c, u, e)
    \/ \E c \in Calls, o \in CheckInCallers, e \in EventIDs, a \in Users :
          CheckInAttendeeGetEvent(c, o, e, a)
    \/ \E c \in Calls : CheckInAttendeeLookup(c)
    \/ \E c \in Calls : CheckInAttendeeUpdate(c)

Spec == Init /\ [][Next]_vars

\* ------------------------------------------------------ storage failures
\* eventRepo.GetByID fails for another reason than a missing row:
\* RegisterUser answers "event not found" for every error of GetByID
RegisterUserGetEventFails(c, userID, eventID) ==
    /\ CanStart(c)
    /\ calls' = [calls EXCEPT ![c] =
          [IdleCall EXCEPT !.op = "register", !.user = userID, !.event = eventID,
                           !.pc = "done", !.result = "EventNotFound"]]
    /\ UNCHANGED <<events, regs, evCall, poolVars, cacheVars>>

\* regRepo.GetByUserAndEvent fails: "failed to check existing registration"
RegisterUserLookupFails(c) ==
    /\ calls[c].pc = "reg_lookup"
    /\ calls' = [calls EXCEPT ![c] =
          [@ EXCEPT !.pc = "done", !.result = "CheckExistingFailed"]]
    /\ UNCHANGED <<events, regs, evCall, poolVars, cacheVars>>

\* the transaction of CreateWithCapacityCheck fails and rolls back; the
\* error is returned as the repository formatted it
RegisterUserInsertFails(c) ==
    /\ calls[c].pc = "reg_insert"
    /\ calls' = [calls EXCEPT ![c] = [@ EXCEPT !.pc = "done", !.result = "StorageError"]]
    /\ UNCHANGED <<events, regs, evCall, poolVars, cacheVars>>

\* RegisterUser calls alone, each storage access succeeding or failing
NextFaults ==
    \/ \E c \in Calls, u \in Users, e \in EventIDs : RegisterUserGetEvent(c, u, e)
    \/ \E c \in Calls : RegisterUserLookup(c)
    \/ \E c \in Calls : RegisterUserInsert(c)
    \/ \E c \in Calls, u \in Users, e \in EventIDs : RegisterUserGetEventFails(c, u, e)
    \/ \E c \in Calls : RegisterUserLookupFails(c)
    \/ \E c \in Calls : RegisterUserInsertFails(c)

SpecFaults == Init /\ [][NextFaults]_vars


\* ----------------------------------------------- worker pool operations
\* mutant of Start: the loop runs once more than workerCount
StartOneMore ==
    /\ ~panicked /\ ~started
    /\ mainPc \in {"api", "boot"}
    /\ started' = TRUE
    /\ wg' = wg + workerCount + 1
    /\ workers' = [w \in Workers |-> IF w <= workerCount
                                      THEN [pc |-> "ranging", job |-> 0]
                                      ELSE workers[w]]
    /\ mainPc' = IF mainPc = "boot" THEN "serving" ELSE mainPc
    /\ UNCHANGED <<JobQueue, queueClosed, processed, submitted, dropLog,
                   stopPc, stopCalls, panicked>>
    /\ UNCHANGED <<regVars, evCall, workerCount, cacheVars>>

\* Start: wg.Add(1) and go wp.worker for each of the WorkerCount workers
Start ==
    /\ ~panicked /\ ~started
    /\ mainPc \in {"api", "boot"}
    /\ started' = TRUE
    /\ wg' = wg + workerCount
    /\ workers' = [w \in Workers |-> IF w <= workerCount
                                      THEN [pc |-> "ranging", job |-> 0]
                                      ELSE workers[w]]
    /\ mainPc' = IF mainPc = "boot" THEN "serving" ELSE mainPc
    /\ UNCHANGED <<JobQueue, queueClosed, processed, submitted, dropLog,
                   stopPc, stopCalls, panicked>>
    /\ UNCHANGED <<regVars, evCall, workerCount, cacheVars>>

\* Submit(job): the select sends the job if the queue has room, else prints
\* the drop line; a send on the closed channel panics.  A job is the number
\* of its Submit call, negated if its Notification pointer is nil.
SubmitJob(job) ==
    /\ ~panicked
    /\ mainPc \in {"api", "serving"}
    /\ submitted < MaxJobs
    /\ SubmitCanProceed(JobQueue)
    /\ IF queueClosed
       THEN /\ panicked' = TRUE
            /\ UNCHANGED <<JobQueue, submitted, dropLog>>
       ELSE /\ submitted' = submitted + 1
            /\ IF SendReady(JobQueue)
               THEN JobQueue' = Append(JobQueue, job) /\ UNCHANGED dropLog
               ELSE dropLog' = DropLine(dropLog, job) /\ UNCHANGED JobQueue
            /\ UNCHANGED panicked
    /\ UNCHANGED <<queueClosed, wg, workers, processed, started, stopPc,
                   stopCalls, mainPc>>
    /\ UNCHANGED <<regVars, evCall, workerCount, cacheVars>>

\* Submit of a job that carries a notification, as SendNotification builds it
Submit == SubmitJob(submitted + 1)

\* Submit of NotificationJob{Notification: nil}
SubmitNil == SubmitJob(-(submitted + 1))

\* mutant of WorkerTake: the job is read but stays on the queue
WorkerTakePeek(w) ==
    /\ ~panicked
    /\ workers[w].pc = "ranging"
    /\ JobQueue # <<>>
    /\ workers' = [workers EXCEPT ![w] = [pc |-> "processing", job |-> Head(JobQueue)]]
    /\ UNCHANGED <<JobQueue, queueClosed, wg, processed, submitted, dropLog, started,
                   stopPc, stopCalls, panicked, mainPc>>
    /\ UNCHANGED <<regVars, evCall, workerCount, cacheVars>>

\* mutant of WorkerTake: the newest job is received first
WorkerTakeLast(w) ==
    /\ ~panicked
    /\ workers[w].pc = "ranging"
    /\ JobQueue # <<>>
    /\ workers' = [workers EXCEPT ![w] =
                      [pc |-> "processing", job |-> JobQueue[Len(JobQueue)]]]
    /\ JobQueue' = SubSeq(JobQueue, 1, Len(JobQueue) - 1)
    /\ UNCHANGED <<queueClosed, wg, processed, submitted, dropLog, started,
                   stopPc, stopCalls, panicked, mainPc>>
    /\ UNCHANGED <<regVars, evCall, workerCount, cacheVars>>

\* worker: the range receives the next job
WorkerTake(w) ==
    /\ ~panicked
    /\ workers[w].pc = "ranging"
    /\ JobQueue # <<>>
    /\ workers' = [workers EXCEPT ![w] = [pc |-> "processing", job |-> Head(JobQueue)]]
    /\ JobQueue' = Tail(JobQueue)
    /\ UNCHANGED <<queueClosed, wg, processed, submitted, dropLog, started,
                   stopPc, stopCalls, panicked, mainPc>>
    /\ UNCHANGED <<regVars, evCall, workerCount, cacheVars>>

\* process: print, sleep, print; it returns no error.  Its first line reads
\* job.Notification.Title: with a nil Notification that is a nil dereference,
\* and no goroutine of the pool recovers, so the process dies.
WorkerProcess(w) ==
    /\ ~panicked
    /\ workers[w].pc = "processing"
    /\ IF workers[w].job < 0
       THEN /\ panicked' = TRUE
            /\ workers' = [workers EXCEPT ![w] = [@ EXCEPT !.pc = "crashed"]]
            /\ UNCHANGED processed
       ELSE /\ processed' = Append(processed, [job |-> workers[w].job, worker |-> w])
            /\ workers' = [workers EXCEPT ![w] = [pc |-> "ranging", job |-> 0]]
            /\ UNCHANGED panicked
    /\ UNCHANGED <<JobQueue, queueClosed, wg, submitted, dropLog, started,
                   stopPc, stopCalls, mainPc>>
    /\ UNCHANGED <<regVars, evCall, workerCount, cacheVars>>

\* mutant of WorkerExit: the worker returns without wg.Done()
WorkerExitWithoutDone(w) ==
    /\ ~panicked
    /\ workers[w].pc = "ranging"
    /\ RangeEnds(JobQueue, queueClosed)
    /\ workers' = [workers EXCEPT ![w] = [pc |-> "stopped", job |-> 0]]
    /\ UNCHANGED <<JobQueue, queueClosed, wg, processed, submitted, dropLog, started,
                   stopPc, stopCalls, panicked, mainPc>>
    /\ UNCHANGED <<regVars, evCall, workerCount, cacheVars>>

\* worker: the range ends, defer wp.wg.Done() runs
WorkerExit(w) ==
    /\ ~panicked
    /\ workers[w].pc = "ranging"
    /\ RangeEnds(JobQueue, queueClosed)
    /\ workers' = [workers EXCEPT ![w] = [pc |-> "stopped", job |-> 0]]
    /\ wg' = wg - 1
    /\ UNCHANGED <<JobQueue, queueClosed, processed, submitted, dropLog, started,
                   stopPc, stopCalls, panicked, mainPc>>
    /\ UNCHANGED <<regVars, evCall, workerCount, cacheVars>>

\* Stop, first statement: close(wp.JobQueue); closing a closed channel
\* panics.  A caller of the pool's methods stops a started pool once; main()
\* calls Stop after the server shut down and again when it returns.
StopClose ==
    /\ ~panicked
    /\ stopPc \in {"none", "returned"}
    /\ IF mainPc = "api"
       THEN started /\ stopCalls = 0
       ELSE mainPc \in {"stopping", "deferred"}
    /\ stopCalls' = stopCalls + 1
    /\ IF queueClosed
       THEN panicked' = TRUE /\ UNCHANGED <<queueClosed, stopPc>>
       ELSE queueClosed' = TRUE /\ stopPc' = "waiting" /\ UNCHANGED panicked
    /\ UNCHANGED <<JobQueue, wg, workers, processed, submitted, dropLog, started,
                   mainPc>>
    /\ UNCHANGED <<regVars, evCall, workerCount, cacheVars>>

\* Stop, second statement: wp.wg.Wait() returns when every worker is done
StopWait ==
    /\ ~panicked
    /\ stopPc = "waiting"
    /\ wg = 0
    /\ stopPc' = "returned"
    /\ mainPc' = IF mainPc = "stopping" THEN "deferred" ELSE mainPc
    /\ UNCHANGED <<JobQueue, queueClosed, wg, workers, processed, submitted,
                   dropLog, started, stopCalls, panicked>>
    /\ UNCHANGED <<regVars, evCall, workerCount, cacheVars>>

\* main: the signal arrives and srv.Shutdown returns nil, no handler is left
MainShutdown ==
    /\ ~panicked
    /\ mainPc = "serving"
    /\ mainPc' = "stopping"
    /\ UNCHANGED <<JobQueue, queueClosed, wg, workers, processed, submitted,
                   dropLog, started, stopPc, stopCalls, panicked>>
    /\ UNCHANGED <<regVars, evCall, workerCount, cacheVars>>

\* main: srv.Shutdown fails, log.Fatal exits without Stop and without defers
MainShutdownFatal ==
    /\ ~panicked
    /\ mainPc = "serving"
    /\ mainPc' = "fatal"
    /\ UNCHANGED <<JobQueue, queueClosed, wg, workers, processed, submitted,
                   dropLog, started, stopPc, stopCalls, panicked>>
    /\ UNCHANGED <<regVars, evCall, workerCount, cacheVars>>

NextPool ==
    \/ Start
    \/ Submit
    \/ \E w \in Workers : WorkerTake(w)
    \/ \E w \in Workers : WorkerProcess(w)
    \/ \E w \in Workers : WorkerExit(w)
    \/ StopClose
    \/ StopWait

\* the registrations and events tables play no part in the pool
InitPool ==
    /\ events = {}
    /\ regs = <<>>
    /\ calls = [c \in Calls |-> IdleCall]
    /\ evCall = IdleEvCall
    /\ PoolInit
    /\ CacheInit

SpecPool == InitPool /\ [][NextPool]_vars

\* NewWorkerPool(1, BufferSize): the pool of a single worker
InitOneWorker ==
    /\ events = {}
    /\ regs = <<>>
    /\ calls = [c \in Calls |-> IdleCall]
    /\ evCall = IdleEvCall
    /\ PoolInitWith(1, "api")
    /\ CacheInit

SpecOneWorker == InitOneWorker /\ [][NextPool]_vars

\* main(): NewWorkerPool(5, 100), Start, defer Stop, serve, Shutdown, Stop
InitMain ==
    /\ events = {}
    /\ regs = <<>>
    /\ calls = [c \in Calls |-> IdleCall]
    /\ evCall = IdleEvCall
    /\ PoolInitAt("boot")
    /\ CacheInit

NextMain ==
    \/ NextPool
    \/ MainShutdown
    \/ MainShutdownFatal

SpecMain == InitMain /\ [][NextMain]_vars

\* the Go scheduler runs every runnable goroutine: a worker that can receive,
\* finish its job or leave its loop does so, and a Stop whose wait is over
\* returns
PoolFairness ==
    /\ \A w \in Workers : WF_vars(WorkerTake(w))
    /\ \A w \in Workers : WF_vars(WorkerProcess(w))
    /\ \A w \in Workers : WF_vars(WorkerExit(w))
    /\ WF_vars(StopWait)

\* the handlers submit at most as many jobs as the queue holds
SubmitUpToCapacity ==
    /\ submitted < BufferSize
    /\ Submit

\* main() serving a queue's worth of notifications before the signal
NextMainFair ==
    \/ Start
    \/ SubmitUpToCapacity
    \/ \E w \in Workers : WorkerTake(w)
    \/ \E w \in Workers : WorkerProcess(w)
    \/ \E w \in Workers : WorkerExit(w)
    \/ StopClose
    \/ StopWait
    \/ MainShutdown
    \/ MainShutdownFatal

SpecMainFair == InitMain /\ [][NextMainFair]_vars /\ PoolFairness

\* the pool with jobs whose Notification is nil among the submitted ones
NextFailing ==
    \/ NextPool
    \/ SubmitNil

SpecFailing == InitPool /\ [][NextFailing]_vars

\* --------------------------------------------------- event operations
EvCallFree == evCall.pc \in {"idle", "done"}

\* CreateEvent: build the draft, Validate, eventRepo.Create
CreateEvent(userID, req) ==
    /\ EvCallFree
    /\ LET event == ApplyRequest([NoEvent EXCEPT !.organizer = userID,
                                                  !.status = "draft"], req)
           call  == [IdleEvCall EXCEPT !.op = "create", !.pc = "done",
                                       !.user = userID, !.req = req]
       IN IF Validate(event) # "ok"
          THEN /\ evCall' = [call EXCEPT !.result = "ValidationFailed"]
               /\ UNCHANGED events
          ELSE /\ Cardinality(events) < Len(NewIDs)
               /\ LET stored == [event EXCEPT !.id = NewIDs[Cardinality(events) + 1]]
                  IN /\ events' = events \cup {stored}
                     /\ evCall' = [call EXCEPT !.id = stored.id, !.event = stored,
                                               !.result = "ok"]
    /\ UNCHANGED <<regs, calls, poolVars, cacheVars>>

\* UpdateEvent, first statement: fetch the existing event
UpdateEventGet(userID, eventID, req) ==
    /\ EvCallFree
    /\ LET event == GetByID(eventID)
           call  == [IdleEvCall EXCEPT !.op = "update", !.user = userID,
                                       !.id = eventID, !.req = req]
       IN evCall' = IF event = NoEvent
                    THEN [call EXCEPT !.pc = "done", !.result = "EventNotFound"]
                    ELSE [call EXCEPT !.pc = "upd_save", !.event = event]
    /\ UNCHANGED <<events, regs, calls, poolVars, cacheVars>>

\* UpdateEvent, the rest: apply the fields, return early if there was none,
\* Validate, then eventRepo.Update (owner check and db.Save)
UpdateEventSave ==
    /\ evCall.pc = "upd_save"
    /\ LET event == ApplyRequest(evCall.event, evCall.req)
       IN IF evCall.req = NoRequest
          THEN /\ evCall' = [evCall EXCEPT !.pc = "done", !.result = "ok"]
               /\ UNCHANGED <<events, cache>>
          ELSE IF Validate(event) # "ok"
          THEN /\ evCall' = [evCall EXCEPT !.pc = "done", !.result = "ValidationFailed"]
               /\ UNCHANGED <<events, cache>>
          ELSE IF event.organizer # evCall.user
          THEN /\ evCall' = [evCall EXCEPT !.pc = "done", !.result = "Forbidden"]
               /\ UNCHANGED <<events, cache>>
          ELSE /\ events' = Save(events, event)
               /\ cache' = CacheDelete(cache, event.id)
               /\ evCall' = [evCall EXCEPT !.pc = "done", !.event = event,
                                           !.result = "ok"]
    /\ UNCHANGED <<regs, calls, poolVars, getCalls>>

\* PublishEvent: UpdateStatus(userID, eventID, "published"), then the
\* cache entry of the event is deleted
PublishEvent(userID, eventID) ==
    /\ EvCallFree
    /\ LET r == UpdateStatus(events, userID, eventID, "published")
       IN /\ events' = r.events
          /\ cache' = IF r.err = "ok" THEN CacheDelete(cache, eventID) ELSE cache
          /\ evCall' = [IdleEvCall EXCEPT !.op = "publish", !.pc = "done",
                           !.user = userID, !.id = eventID, !.result = r.err]
    /\ UNCHANGED <<regs, calls, poolVars, getCalls>>

\* EventService.Cancel: UpdateStatus(userID, eventID, "cancelled")
CancelEvent(userID, eventID) ==
    /\ EvCallFree
    /\ LET r == UpdateStatus(events, userID, eventID, "cancelled")
       IN /\ events' = r.events
          /\ evCall' = [IdleEvCall EXCEPT !.op = "cancel", !.pc = "done",
                           !.user = userID, !.id = eventID, !.result = r.err]
    /\ UNCHANGED <<regs, calls, poolVars, cacheVars>>

NextEvents ==
    \/ \E u \in Organizers, req \in CreateRequests : CreateEvent(u, req)
    \/ \E u \in EventCallers, i \in DOMAIN NewIDs, req \in UpdateRequests :
          UpdateEventGet(u, NewIDs[i], req)
    \/ UpdateEventSave
    \/ \E u \in EventCallers, i \in DOMAIN NewIDs : PublishEvent(u, NewIDs[i])
    \/ \E u \in EventCallers, i \in DOMAIN NewIDs : CancelEvent(u, NewIDs[i])

\* an empty events table, no registration, the pool not in use
InitEvents ==
    /\ events = {}
    /\ regs = <<>>
    /\ calls = [c \in Calls |-> IdleCall]
    /\ evCall = IdleEvCall
    /\ PoolInit
    /\ CacheInit

SpecEvents == InitEvents /\ [][NextEvents]_vars

\* ------------------------- registrations racing with the organizer
\* an UpdateEventRequest that names a new capacity and nothing else
CapacityRequests == {[NoRequest EXCEPT !.capacity = {k}] : k \in 1..MaxCapacity}

\* RegisterUser calls while the organizer cancels the event or changes its
\* capacity
NextRace ==
    \/ \E c \in Calls, u \in Users, e \in EventIDs : RegisterUserGetEvent(c, u, e)
    \/ \E c \in Calls : RegisterUserLookup(c)
    \/ \E c \in Calls : RegisterUserInsert(c)
    \/ \E o \in Organizers, e \in EventIDs : CancelEvent(o, e)
    \/ \E o \in Organizers, e \in EventIDs, req \in CapacityRequests :
          UpdateEventGet(o, e, req)
    \/ UpdateEventSave

SpecRace == Init /\ [][NextRace]_vars

\* ------------------------------------------- cached reads and delete
GetCallFree(g) == getCalls[g].pc \in {"idle", "done"}

\* GetEventByID step 1: try the cache; a hit is returned
GetEventByIDCache(g, eventID) ==
    /\ GetCallFree(g)
    /\ LET hit == CacheGet(cache, eventID)
       IN getCalls' = [getCalls EXCEPT ![g] =
             IF hit # NoEvent
             THEN [pc |-> "done", id |-> eventID, event |-> hit, result |-> "ok"]
             ELSE [pc |-> "get_db", id |-> eventID, event |-> NoEvent,
                   result |-> "-"]]
    /\ UNCHANGED <<regVars, evCall, poolVars, cache>>

\* GetEventByID step 2: fall back to the database
GetEventByIDStore(g) ==
    /\ getCalls[g].pc = "get_db"
    /\ LET event == GetByID(getCalls[g].id)
       IN getCalls' = [getCalls EXCEPT ![g] =
             IF event = NoEvent
             THEN [@ EXCEPT !.pc = "done", !.result = "EventNotFound"]
             ELSE [@ EXCEPT !.pc = "get_set", !.event = event]]
    /\ UNCHANGED <<regVars, evCall, poolVars, cache>>

\* GetEventByID step 3: set the cache entry and return the event
GetEventByIDSet(g) ==
    /\ getCalls[g].pc = "get_set"
    /\ cache' = CacheSet(cache, getCalls[g].id, getCalls[g].event)
    /\ getCalls' = [getCalls EXCEPT ![g] = [@ EXCEPT !.pc = "done", !.result = "ok"]]
    /\ UNCHANGED <<regVars, evCall, poolVars>>

\* DeleteEvent, first statement: eventRepo.Delete
DeleteEventStore(userID, eventID) ==
    /\ EvCallFree
    /\ LET r == Delete(events, userID, eventID)
           call == [IdleEvCall EXCEPT !.op = "delete", !.user = userID,
                                      !.id = eventID]
       IN /\ events' = r.events
          /\ evCall' = IF r.err = "ok"
                       THEN [call EXCEPT !.pc = "del_cache"]
                       ELSE [call EXCEPT !.pc = "done", !.result = r.err]
    /\ UNCHANGED <<regs, calls, poolVars, cacheVars>>

\* DeleteEvent, second statement: invalidate the cache entry, return nil
DeleteEventInvalidate ==
    /\ evCall.pc = "del_cache"
    /\ cache' = CacheDelete(cache, evCall.id)
    /\ evCall' = [evCall EXCEPT !.pc = "done", !.result = "ok"]
    /\ UNCHANGED <<regVars, poolVars, getCalls>>

NextCache ==
    \/ \E g \in Readers, e \in EventIDs : GetEventByIDCache(g, e)
    \/ \E g \in Readers : GetEventByIDStore(g)
    \/ \E g \in Readers : GetEventByIDSet(g)
    \/ \E u \in EventCallers, e \in EventIDs : DeleteEventStore(u, e)
    \/ DeleteEventInvalidate

\* one event inserted directly, an empty cache
InitCache ==
    /\ events \in {{[id |-> id, organizer |-> o, title |-> "t", capacity |-> k,
                     startTime |-> 0, endTime |-> 1, status |-> st]} :
                       id \in EventIDs, o \in Organizers, k \in 1..MaxCapacity,
                       st \in EventStatuses}
    /\ regs = <<>>
    /\ calls = [c \in Calls |-> IdleCall]
    /\ evCall = IdleEvCall
    /\ PoolInit
    /\ CacheInit

SpecCache == InitCache /\ [][NextCache]_vars

TypeOK ==
    /\ \A r \in events : r.capacity \in 1..MaxCapacity /\ r.status \in EventStatuses
    /\ \A i \in DOMAIN regs : regs[i].status \in {"confirmed", "cancelled", "checked_in"}
    /\ \A c \in Calls : calls[c].pc \in {"idle", "reg_lookup", "reg_insert",
                                         "chk_lookup", "chk_update", "done"}
    /\ evCall.pc \in {"idle", "upd_save", "del_cache", "done"}
    /\ Len(JobQueue) <= BufferSize
    /\ wg \in 0..WorkerCount
    /\ \A w \in Workers : workers[w].pc \in {"unstarted", "ranging", "processing",
                                               "stopped", "crashed"}
    /\ submitted \in 0..MaxJobs
    /\ stopPc \in {"none", "waiting", "returned"}
    /\ mainPc \in {"api", "boot", "serving", "stopping", "deferred", "fatal"}
    /\ workerCount \in 1..WorkerCount
    /\ \A g \in Readers : getCalls[g].pc \in {"idle", "get_db", "get_set", "done"}
\* ------------------------------------------------------------ properties
\* rows of an event by status, counted on the table itself
RowsWithStatus(e, statuses) ==
    {i \in DOMAIN regs : regs[i].event = e /\ regs[i].status \in statuses}

\* rows of a (user, event) pair by status
PairRows(u, e, statuses) ==
    {i \in DOMAIN regs : regs[i].user = u /\ regs[i].event = e
                         /\ regs[i].status \in statuses}

AnyStatus == {"confirmed", "cancelled", "checked_in"}
ActiveStatus == {"confirmed", "checked_in"}

Min(a, b) == IF a <= b THEN a ELSE b

\* call c takes a step of RegisterUser that leaves position from
RegisterStepFrom(c, from) ==
    /\ calls[c].pc = from
    /\ calls'[c].pc # from
    /\ calls'[c].op = "register"

\* C1: for every event the number of confirmed registrations is at most the
\* event's capacity, in every state of every interleaving of the calls
C1_ConfirmedWithinCapacity ==
    \A r \in events :
        Cardinality(RowsWithStatus(r.id, {"confirmed"})) <= r.capacity

\* two RegisterUser calls contended for the last slot: one got it, one got
\* EventFull, and the event is exactly full
C1_Witness ==
    \E r \in events, c, d \in Calls :
        /\ calls[c].op = "register" /\ calls[c].result = "ok"
        /\ calls[d].op = "register" /\ calls[d].result = "EventFull"
        /\ calls[c].event = r.id /\ calls[d].event = r.id
        /\ Cardinality(RowsWithStatus(r.id, {"confirmed"})) = r.capacity

\* the RegisterUser calls of an event, and the calls of the other operations
RegisterCalls(e) == {c \in Calls : calls[c].op = "register" /\ calls[c].event = e}
OtherCalls(e) == {c \in Calls : calls[c].op \in {"cancel", "checkin"} /\ calls[c].event = e}

\* only RegisterUser calls, of distinct users, were issued for the event, and
\* all of them have returned
RaceOver(e) ==
    /\ RegisterCalls(e) # {}
    /\ OtherCalls(e) = {}
    /\ \A c \in RegisterCalls(e) : calls[c].pc = "done"
    /\ \A c, d \in RegisterCalls(e) : c # d => calls[c].user # calls[d].user

\* C2: after N distinct users raced for a published event of capacity C that
\* had no registrations, min(N,C) calls returned a confirmed registration, the
\* other N - min(N,C) returned EventFull, and the confirmed count is min(N,C)
C2_ExactlyMinSucceed ==
    \A r \in events :
        (r.status = "published" /\ RaceOver(r.id)) =>
            LET N == Cardinality(RegisterCalls(r.id))
                m == Min(N, r.capacity)
            IN /\ Cardinality({c \in RegisterCalls(r.id) : calls[c].result = "ok"}) = m
               /\ Cardinality({c \in RegisterCalls(r.id) : calls[c].result = "EventFull"}) = N - m
               /\ Cardinality(RowsWithStatus(r.id, {"confirmed"})) = m
               /\ \A c \in RegisterCalls(r.id) :
                     calls[c].result = "ok" =>
                         PairRows(calls[c].user, r.id, {"confirmed"}) # {}

\* three users raced for an event of capacity two
C2_Witness ==
    \E r \in events :
        /\ r.status = "published" /\ r.capacity = 2
        /\ RaceOver(r.id)
        /\ Cardinality(RegisterCalls(r.id)) = 3

\* C3: every (user, event) pair has at most one registration that is not
\* cancelled
C3_OneActivePerPair ==
    \A u \in Users, e \in EventIDs :
        Cardinality(PairRows(u, e, ActiveStatus)) <= 1

\* two calls of one user both passed the lookup; the second insert was
\* refused by the table
C3_Witness ==
    \E c, d \in Calls :
        /\ c # d
        /\ calls[c].op = "register" /\ calls[d].op = "register"
        /\ calls[c].user = calls[d].user /\ calls[c].event = calls[d].event
        /\ calls[c].result = "ok" /\ calls[d].result = "StorageError"

\* the event is in the table with status published
Published(e) == \E r \in events : r.id = e /\ r.status = "published"

\* call c takes the first or the second step of RegisterUser while its pair
\* has a registration that is not cancelled
RetryStep(c) ==
    /\ RegisterStepFrom(c, "idle") \/ RegisterStepFrom(c, "reg_lookup")
    /\ PairRows(calls'[c].user, calls'[c].event, ActiveStatus) # {}

\* C4 as stated: while a pair has a registration that is not cancelled, a
\* RegisterUser call of that pair changes no row, does not get past the
\* lookup, and whenever it returns it returns AlreadyRegistered
C4_RetryAlwaysAlreadyRegistered ==
    [][\A c \in Calls :
          RetryStep(c)
          => /\ regs' = regs
             /\ calls'[c].pc \in {"reg_lookup", "done"}
             /\ calls[c].pc = "reg_lookup" => calls'[c].pc = "done"
             /\ calls'[c].pc = "done" => calls'[c].result = "AlreadyRegistered"]_vars

\* C4 as amended: while a pair has a registration that is not cancelled, a
\* RegisterUser call of that pair changes no row and does not get past the
\* lookup; it returns AlreadyRegistered if the event is published and
\* EventNotPublished if it is not
C4_RetryIsRefused ==
    [][\A c \in Calls :
          RetryStep(c)
          => /\ regs' = regs
             /\ calls'[c].pc \in {"reg_lookup", "done"}
             /\ calls[c].pc = "reg_lookup" => calls'[c].pc = "done"
             /\ calls'[c].pc = "done" =>
                   calls'[c].result = IF Published(calls'[c].event)
                                      THEN "AlreadyRegistered"
                                      ELSE "EventNotPublished"]_vars

\* a registered user retried on an event that still has a free slot
C4_Witness ==
    \E c \in Calls, r \in events :
        /\ calls[c].op = "register" /\ calls[c].event = r.id
        /\ calls[c].result = "AlreadyRegistered"
        /\ Cardinality(PairRows(calls[c].user, r.id, ActiveStatus)) = 1
        /\ Cardinality(PairRows(calls[c].user, r.id, AnyStatus)) = 1
        /\ Cardinality(RowsWithStatus(r.id, {"confirmed"})) < r.capacity
\* C5: on a published event of capacity 1 whose slot was given back by a
\* cancellation (no confirmed or checked-in row is left), the RegisterUser call
\* of a user without a registration passes the lookup and its insert returns
\* a confirmed registration
C5_CancelFreesSlot ==
    [][\A c \in Calls, r \in events :
          (/\ r.id = calls[c].event
           /\ r.status = "published" /\ r.capacity = 1
           /\ RowsWithStatus(r.id, {"cancelled"}) # {}
           /\ RowsWithStatus(r.id, ActiveStatus) = {}
           /\ PairRows(calls[c].user, r.id, AnyStatus) = {})
          => /\ RegisterStepFrom(c, "reg_lookup") => calls'[c].pc = "reg_insert"
             /\ RegisterStepFrom(c, "reg_insert") =>
                   /\ calls'[c].result = "ok"
                   /\ regs' = Append(regs, [user |-> calls[c].user, event |-> r.id,
                                            status |-> "confirmed"])]_vars

\* A cancelled the only slot of the event, and B then holds it
C5_Witness ==
    \E r \in events, c, d \in Calls :
        /\ r.capacity = 1
        /\ calls[c].op = "cancel" /\ calls[c].event = r.id /\ calls[c].result = "ok"
        /\ calls[d].op = "register" /\ calls[d].event = r.id /\ calls[d].result = "ok"
        /\ calls[d].user # calls[c].user
        /\ PairRows(calls[c].user, r.id, {"cancelled"}) # {}
        /\ PairRows(calls[d].user, r.id, {"confirmed"}) # {}
        /\ regs[Len(regs)].user = calls[d].user

\* C6: a CancelRegistration of a pair that has no registration, or whose
\* registration is already cancelled, returns the error of a missing
\* registration, so that two cancels in a row never both succeed
C6_CancelTwiceFails ==
    [][\A c \in Calls :
          (/\ calls[c].pc = "idle"
           /\ calls'[c].op = "cancel"
           /\ PairRows(calls'[c].user, calls'[c].event, ActiveStatus) = {})
          => calls'[c].result = "RegistrationNotFound"]_vars

\* call c does the lookup of RegisterUser while the registration of its pair
\* is cancelled
LookupOfCancelled(c) ==
    /\ RegisterStepFrom(c, "reg_lookup")
    /\ PairRows(calls[c].user, calls[c].event, {"cancelled"}) # {}
    /\ PairRows(calls[c].user, calls[c].event, ActiveStatus) = {}

\* C7 as stated: a cancelled registration does not refuse the RegisterUser
\* call of its pair; the call goes on to the capacity-checked insert
C7_CancelledDoesNotBlock ==
    [][\A c \in Calls :
          LookupOfCancelled(c) => calls'[c].pc = "reg_insert"]_vars

\* C7 as amended: a cancelled registration refuses the RegisterUser call of
\* its pair like any other registration: the call returns AlreadyRegistered
\* and changes no row
C7_CancelledBlocks ==
    [][\A c \in Calls :
          LookupOfCancelled(c)
          => /\ calls'[c].pc = "done"
             /\ calls'[c].result = "AlreadyRegistered"
             /\ regs' = regs]_vars

\* a user who cancelled was refused although the event has a free slot
C7_Witness ==
    \E c \in Calls, r \in events :
        /\ calls[c].op = "register" /\ calls[c].event = r.id
        /\ calls[c].result = "AlreadyRegistered"
        /\ r.status = "published"
        /\ PairRows(calls[c].user, r.id, {"cancelled"}) # {}
        /\ PairRows(calls[c].user, r.id, ActiveStatus) = {}
        /\ Cardinality(RowsWithStatus(r.id, {"confirmed"})) < r.capacity

\* C8: for every event the number of registrations that are confirmed or
\* checked in is at most the event's capacity
C8_CheckInKeepsSlot ==
    \A r \in events :
        Cardinality(RowsWithStatus(r.id, ActiveStatus)) <= r.capacity

\* C9: a RegisterUser call for an event that is in the table and not
\* published returns EventNotPublished at once and changes no row
C9_UnpublishedRefused ==
    [][\A c \in Calls :
          (/\ RegisterStepFrom(c, "idle")
           /\ \E r \in events : r.id = calls'[c].event /\ r.status # "published")
          => /\ calls'[c].pc = "done"
             /\ calls'[c].result = "EventNotPublished"
             /\ regs' = regs]_vars

\* a user holding a registration of a draft event was refused with
\* EventNotPublished
C9_Witness ==
    \E c \in Calls, r \in events :
        /\ calls[c].op = "register" /\ calls[c].event = r.id
        /\ calls[c].result = "EventNotPublished"
        /\ r.status = "draft"
        /\ PairRows(calls[c].user, r.id, {"confirmed"}) # {}

\* call c takes a step of CheckInAttendee that leaves position from
CheckInStepFrom(c, from) ==
    /\ calls[c].pc = from
    /\ calls'[c].pc # from
    /\ calls'[c].op = "checkin"

\* the registrations table after the rows of the pair got the status
WithStatus(u, e, status) ==
    [i \in DOMAIN regs |->
        IF regs[i].user = u /\ regs[i].event = e
        THEN [user |-> u, event |-> e, status |-> status]
        ELSE regs[i]]

\* C10: a CheckInAttendee call by somebody who is not the organizer returns
\* Forbidden, one that reads a cancelled or checked-in registration returns
\* InvalidStateTransition, both without changing a row; a call writes
\* checked_in only as the organizer and after reading status confirmed
C10_CheckInGuards ==
    [][\A c \in Calls :
          /\ (/\ CheckInStepFrom(c, "idle")
              /\ \E r \in events : r.id = calls'[c].event
                                   /\ r.organizer # calls'[c].user)
             => /\ calls'[c].pc = "done" /\ calls'[c].result = "Forbidden"
                /\ regs' = regs
          /\ (/\ CheckInStepFrom(c, "chk_lookup")
              /\ PairRows(calls[c].attendee, calls[c].event,
                          {"cancelled", "checked_in"}) # {})
             => /\ calls'[c].pc = "done"
                /\ calls'[c].result = "InvalidStateTransition"
                /\ regs' = regs
          /\ CheckInStepFrom(c, "chk_lookup") => regs' = regs
          /\ CheckInStepFrom(c, "chk_update")
             => /\ \E r \in events : r.id = calls[c].event
                                     /\ r.organizer = calls[c].user
                /\ calls[c].seen = "confirmed"
                /\ calls'[c].result = "ok"
                /\ regs' = WithStatus(calls[c].attendee, calls[c].event,
                                      "checked_in")]_vars

\* the organizer checked an attendee in, somebody else was refused, and a
\* second check-in of the attendee was refused as well
C10_Witness ==
    \E c, d, f \in Calls :
        /\ calls[c].op = "checkin" /\ calls[c].result = "ok"
        /\ PairRows(calls[c].attendee, calls[c].event, {"checked_in"}) # {}
        /\ calls[d].op = "checkin" /\ calls[d].result = "InvalidStateTransition"
        /\ calls[d].attendee = calls[c].attendee
        /\ calls[f].op = "checkin" /\ calls[f].result = "Forbidden"

\* call c takes the step of RegisterUser that returns
RegisterReturns(c) ==
    /\ calls[c].pc # "done"
    /\ calls'[c].pc = "done"
    /\ calls'[c].op = "register"

\* C11: RegisterUser is all-or-nothing.  The step on which a call returns an
\* error, and every step of a call that has not returned, leaves the
\* registrations table as it was; the step on which a call returns success
\* adds exactly one row, confirmed, for the user and the event of the call.
C11_AllOrNothing ==
    [][\A c \in Calls :
          /\ (calls'[c].op = "register" /\ calls'[c] # calls[c]
                 /\ calls'[c].result # "ok") => regs' = regs
          /\ (RegisterReturns(c) /\ calls'[c].result = "ok") =>
                 /\ Len(regs') = Len(regs) + 1
                 /\ \A i \in DOMAIN regs : regs'[i] = regs[i]
                 /\ regs'[Len(regs')].user = calls'[c].user
                 /\ regs'[Len(regs')].event = calls'[c].event
                 /\ regs'[Len(regs')].status = "confirmed"]_vars

\* one call returned success and its row is there, another returned
\* EventFull, another AlreadyRegistered
C11_Witness ==
    \E c, d, f \in Calls :
        /\ calls[c].op = "register" /\ calls[c].result = "ok"
        /\ PairRows(calls[c].user, calls[c].event, {"confirmed"}) # {}
        /\ calls[d].op = "register" /\ calls[d].result = "EventFull"
        /\ calls[f].op = "register" /\ calls[f].result = "AlreadyRegistered"

\* C18: no registration row is ever removed.  On every step the table is
\* at least as long as before, and each row that was there is still there
\* for the same user and event; only its status may differ.
C18_NoRowRemoved ==
    [][/\ Len(regs') >= Len(regs)
       /\ \A i \in DOMAIN regs :
             /\ regs'[i].user = regs[i].user
             /\ regs'[i].event = regs[i].event]_vars

\* a registration was made, then cancelled, and its row is still there
C18_Witness ==
    \E c, d \in Calls :
        /\ c < d
        /\ calls[c].op = "register" /\ calls[c].result = "ok"
        /\ calls[d].op = "cancel" /\ calls[d].result = "ok"
        /\ calls[d].user = calls[c].user /\ calls[d].event = calls[c].event
        /\ PairRows(calls[c].user, calls[c].event, {"cancelled"}) # {}

\* C17: a storage failure inside RegisterUser is never reported as a
\* business error.  A call that starts while the event is in the table
\* never returns EventNotFound.
C17_StorageFailureNotBusinessError ==
    [][\A c \in Calls :
          (/\ RegisterStepFrom(c, "idle")
           /\ \E r \in events : r.id = calls'[c].event)
          => calls'[c].result # "EventNotFound"]_vars

\* jobs a worker holds, read off the workers themselves
InFlight == {w \in Workers : workers[w].pc = "processing"}

\* jobs Submit put on the queue: queued, held by a worker, or processed
Accepted == Len(JobQueue) + Cardinality(InFlight) + Len(processed)

\* the pool is running: started and not yet stopped
Running == started /\ ~queueClosed /\ ~panicked

\* C12: Submit never blocks its caller.  In every state of a running pool,
\* whatever the queue holds and whatever the workers do, a Submit call can
\* take its step at once.
C12_SubmitNeverBlocks ==
    (Running /\ submitted < MaxJobs) => ENABLED Submit

\* the queue is full, every worker is busy, and a Submit returned all
\* the same: its job is on the drop log
C12_Witness ==
    /\ Running
    /\ Len(JobQueue) = BufferSize
    /\ InFlight = Workers
    /\ dropLog # <<>>
    /\ submitted = WorkerCount + BufferSize + Len(dropLog)

\* C13: back-pressure.  The queue never holds more than BufferSize jobs, and
\* every submitted job is either accepted or on the drop log, never both:
\* accepted + dropped = submitted, so a Submit on a full queue, which cannot
\* lengthen the queue, has logged its job.
C13_BackPressure ==
    /\ Len(JobQueue) <= BufferSize
    /\ Accepted + Len(dropLog) = submitted
    /\ \A i \in DOMAIN dropLog :
          /\ \A j \in DOMAIN JobQueue : JobQueue[j] # dropLog[i]
          /\ \A w \in InFlight : workers[w].job # dropLog[i]
          /\ \A j \in DOMAIN processed : processed[j].job # dropLog[i]

\* a job was dropped on a full queue while other jobs were accepted
C13_Witness ==
    /\ Len(dropLog) = 1
    /\ Len(JobQueue) = BufferSize
    /\ Accepted = submitted - 1
    /\ ~queueClosed

\* C14: graceful shutdown.  When Stop has returned, no job is queued, no
\* job is in a worker's hands, and every accepted job has been processed.
C14_StopDrains ==
    stopPc = "returned" =>
        /\ JobQueue = <<>>
        /\ InFlight = {}
        /\ \A j \in 1..submitted :
              (\A i \in DOMAIN dropLog : dropLog[i] # j)
              => \E i \in DOMAIN processed : processed[i].job = j

\* Stop returned on a pool that had accepted at least a queue of jobs
C14_Witness ==
    /\ stopPc = "returned"
    /\ ~panicked
    /\ Len(processed) >= BufferSize
    /\ Len(processed) = submitted - Len(dropLog)

\* C15: once Stop has been called, a Submit returns without its job being
\* enqueued and without crashing the process.
C15_SubmitAfterStopIsRefused ==
    [][stopCalls >= 1 => (~panicked' /\ JobQueue' # Append(JobQueue, submitted + 1))]_vars

\* C16: in a run of main() that shuts down gracefully, Stop is invoked
\* once on the pool: the job queue is closed once and nothing panics.
C16_StopOnce ==
    mainPc \in {"stopping", "deferred"} => (stopCalls <= 1 /\ ~panicked)

\* the event-service call of kind op returns on this step
EventCallReturns(op) ==
    /\ evCall.pc # "done" \/ evCall' # evCall
    /\ evCall'.pc = "done"
    /\ evCall'.op = op

\* C19: every stored event has capacity at least 1, and a CreateEvent or
\* UpdateEvent call whose request names a capacity of 0 or less returns an
\* error and leaves the events table as it was.
C19_CapacityAtLeastOne ==
    [][/\ \A r \in events' : r.capacity >= 1
       /\ \A op \in {"create", "update"} :
             (/\ EventCallReturns(op)
              /\ \E k \in evCall'.req.capacity : k < 1)
             => (evCall'.result # "ok" /\ events' = events)]_vars

\* an event is stored, and an update of it to capacity 0 with every other
\* field valid was refused by validation
C19_Witness ==
    /\ evCall.op = "update" /\ evCall.pc = "done"
    /\ evCall.req = [NoRequest EXCEPT !.capacity = {0}]
    /\ evCall.result = "ValidationFailed"
    /\ \E r \in events : r.id = evCall.id /\ r.capacity >= 1
                          /\ r.organizer = evCall.user

\* C20: every stored event ends strictly later than it starts.
C20_EndAfterStart ==
    \A r \in events : r.endTime > r.startTime

\* C21: after DeleteEvent returned success for an event, a GetEventByID of
\* that event that starts then does not return the event.
C21_DeletedEventNotReturned ==
    [][\A g \in Readers :
          (/\ evCall.op = "delete" /\ evCall.pc = "done" /\ evCall.result = "ok"
           /\ getCalls[g].pc \in {"idle", "done"}
           /\ getCalls'[g] # getCalls[g]
           /\ getCalls'[g].id = evCall.id)
          => ~(getCalls'[g].pc = "done" /\ getCalls'[g].result = "ok")]_vars

\* the lifecycle state of the pool, read off the channel and the Stop call
PoolState ==
    IF ~started \/ stopPc = "returned" THEN "Stopped"
    ELSE IF queueClosed THEN "Draining"
    ELSE "Running"

\* C22: the lifecycle moves only Stopped -> Running -> Draining -> Stopped.
\* A pool that has returned from Stop stays Stopped, it reaches Stopped
\* from Draining only with every worker exited, and a worker receives a
\* job only while the pool is Running or Draining.
C22_Lifecycle ==
    [][/\ \/ PoolState' = PoolState
          \/ PoolState = "Stopped" /\ PoolState' = "Running"
          \/ PoolState = "Running" /\ PoolState' = "Draining"
          \/ PoolState = "Draining" /\ PoolState' = "Stopped"
       /\ stopPc = "returned" => PoolState' = "Stopped"
       /\ (PoolState = "Draining" /\ PoolState' = "Stopped")
             => \A w \in 1..workerCount : workers'[w].pc = "stopped"
       /\ \A w \in Workers :
             (workers[w].pc # "processing" /\ workers'[w].pc = "processing")
             => PoolState \in {"Running", "Draining"}]_vars

\* the pool went through the whole cycle and processed jobs on the way
C22_Witness ==
    /\ started /\ stopPc = "returned" /\ ~panicked
    /\ processed # <<>>
    /\ \A w \in Workers : workers[w].pc = "stopped"

\* places where job j is: on the queue, in a worker's hands, processed
Occurrences(j) ==
    Cardinality({i \in DOMAIN JobQueue : JobQueue[i] = j})
    + Cardinality({w \in Workers : workers[w].pc = "processing" /\ workers[w].job = j})
    + Cardinality({i \in DOMAIN processed : processed[i].job = j})

\* C23: every job is in at most one place: queued, or in the hands of one
\* worker, or processed once.  No job is held by two workers, processed
\* twice, or back on the queue after a worker received it.
C23_ExactlyOneWorker ==
    \A j \in 1..submitted : Occurrences(j) <= 1

\* both workers hold a job while an earlier job is processed and another waits
C23_Witness ==
    /\ \A w \in Workers : workers[w].pc = "processing"
    /\ processed # <<>>
    /\ JobQueue # <<>>

\* worker goroutines that have been started and have not returned
LiveWorkers == {w \in Workers : workers[w].pc \in {"ranging", "processing"}}

\* C24: the goroutines running are the ones the WaitGroup counts, at most
\* WorkerCount of them, and the jobs in processing are at most one per
\* worker, so at most WorkerCount.
C24_OneJobPerWorker ==
    /\ Cardinality(LiveWorkers) = wg
    /\ wg <= WorkerCount
    /\ Cardinality(InFlight) <= WorkerCount
    /\ \A v, w \in InFlight : v # w => workers[v].job # workers[w].job

\* every worker is busy and jobs wait on the queue for one of them
C24_Witness ==
    /\ Cardinality(InFlight) = WorkerCount
    /\ Len(JobQueue) = BufferSize
    /\ wg = WorkerCount

\* C25: with a single worker the jobs are processed in the order of their
\* acceptance, which is the order of their numbers.
C25_SingleWorkerFIFO ==
    workerCount = 1 =>
        \A i, j \in DOMAIN processed :
            i < j => processed[i].job < processed[j].job

\* the single worker processed three jobs, one after the other
C25_Witness ==
    /\ workerCount = 1
    /\ Len(processed) >= 3
    /\ \A i \in DOMAIN processed : processed[i].worker = 1

\* with two workers a later job can be processed before an earlier one
OutOfOrder ==
    \E i, j \in DOMAIN processed : i < j /\ processed[i].job > processed[j].job

C27_StopTerminates ==
    (stopPc = "waiting") ~> (stopPc = "returned")

\* main's Stop returned after the workers processed a queue's worth of jobs
C27_Witness ==
    /\ mainPc = "deferred"
    /\ stopPc = "returned"
    /\ Len(processed) = BufferSize
    /\ wg = 0

\* C28: no registration is committed for an event that is not published at
\* the moment of the insert.
C28_InsertOnlyWhilePublished ==
    [][\A c \in Calls :
          (RegisterStepFrom(c, "reg_insert") /\ calls'[c].result = "ok")
          => \E r \in events : r.id = calls[c].event /\ r.status = "published"]_vars

\* C29: an event never has more confirmed registrations than its stored
\* capacity.
C29_ConfirmedWithinStoredCapacity ==
    \A r \in events : Cardinality(RowsWithStatus(r.id, {"confirmed"})) <= r.capacity

\* C30: a registration whose status is cancelled is never moved to
\* checked_in.
C30_CancelledNeverCheckedIn ==
    [][\A i \in DOMAIN regs :
          regs[i].status = "cancelled" => regs'[i].status # "checked_in"]_vars
====
